---- MODULE Spec2Model ----
(***************************************************************************)
(* MigrationManager of src/src/migrations.rs as a state machine.           *)
(*                                                                         *)
(* The Registry is the Vec<Migration> of the manager; durable state is the *)
(* `migration` table of the database, a multiset of rows (CREATE adds a    *)
(* row with a fresh id, the code defines no unique index on version).      *)
(* Every `.await` on a database query is one step that either succeeds or  *)
(* fails; record_metric is synchronous and belongs to the step of the      *)
(* query that follows it.                                                  *)
(***************************************************************************)
EXTENDS Integers, Sequences, FiniteSets, TLC

\* Bounds of the model.
MaxMigrations == 2
MaxVersion == 2
MaxWindow == 2
MaxRecorded == 3

\* Migration.version is an i32 and add_migration accepts any value: the
\* model offers the positive versions and one negative version.
Versions == {0 - 1} \cup (1..MaxVersion)

\* rollback's target_version is an i32: 0 (undo everything applied), the
\* positive versions, and one target below every version.
Targets == {0 - 2} \cup (0..MaxVersion)

VARIABLES
    migrations,       \* self.migrations: the Registry, in insertion order
    table,            \* rows of the migration table: version -> number of rows
    pc,               \* position of the (single) caller inside the manager
    current_version,  \* local of run_pending_migrations / rollback
    target_version,   \* argument of rollback
    work,             \* what the for-loop's iterator still yields (indices)
    log,              \* history: the events of the current / last invocation
    table0,           \* history: the table when that invocation began
    result,           \* history: what that invocation returned
    lastOp,           \* history: the last operation called on the manager
    prev,             \* history: the invocation before, if a successful run
                      \* or a failed rollback to the same target
    pc2,              \* position of a second run_pending_migrations future
    current_version2, \* its local
    work2,            \* its iterator
    log2,             \* history: its events
    sink,             \* whether the metric sink is available
    serving,          \* main: "no", "serving" (gRPC server up) or "exited"
    window_size,          \* AnomalyDetector
    threshold_multiplier, \* AnomalyDetector
    metrics_history,      \* AnomalyDetector
    recorded,         \* history: every metric given to record_metrics, in order
    anomalies         \* history: what the last detect_anomalies returned

second == <<pc2, current_version2, work2, log2>>

first == <<pc, current_version, target_version, work, log, table0, result,
           lastOp, prev>>

detector == <<window_size, threshold_multiplier, metrics_history, recorded,
              anomalies>>

outside == <<sink, serving, detector>>

vars == <<migrations, table, pc, current_version, target_version, work,
          log, table0, result, lastOp, prev,
          pc2, current_version2, work2, log2, sink, serving,
          window_size, threshold_multiplier, metrics_history, recorded,
          anomalies>>

\* struct Migration; name, description, up and down are opaque strings that
\* no branch of the manager reads, the scripts are identified by the entry.
Migration == [version : Versions, applied_at : {"None"}]

Max(S) == CHOOSE x \in S : \A y \in S : y <= x

Rev(s) == [i \in 1..Len(s) |-> s[Len(s) + 1 - i]]

Indices(ms) == [i \in 1..Len(ms) |-> i]

EmptyTable == [v \in Versions |-> 0]

NoPrev == [ok |-> FALSE, empty |-> FALSE, ups |-> <<>>,
           failed |-> FALSE, done |-> {}]

Ev(k, i, v, ok, n) == [kind |-> k, idx |-> i, version |-> v, ok |-> ok, n |-> n]

\* Mutant of get_current_version: ORDER BY version ASC, the smallest
\* recorded version.
get_current_version_asc(tbl) ==
    LET vs == {v \in Versions : tbl[v] > 0}
    IN  IF vs = {} THEN 0 ELSE CHOOSE x \in vs : \A y \in vs : x <= y

\* SELECT version FROM migration ORDER BY version DESC LIMIT 1, unwrap_or(0)
get_current_version(tbl) ==
    LET vs == {v \in Versions : tbl[v] > 0}
    IN  IF vs = {} THEN 0 ELSE Max(vs)

\* Mutant of pending_forward: the filter written with >= instead of >.
pending_forward_geq(ms, cv) ==
    SelectSeq(Indices(ms), LAMBDA i : ms[i].version >= cv)

\* self.migrations.iter().filter(|m| m.version > current_version)
pending_forward(ms, cv) ==
    SelectSeq(Indices(ms), LAMBDA i : ms[i].version > cv)

\* Mutant of pending_backward: the .rev() left out.
pending_backward_norev(ms, tv) ==
    SelectSeq(Indices(ms), LAMBDA i : ms[i].version > tv)

\* self.migrations.iter().filter(|m| m.version > target_version).rev()
pending_backward(ms, tv) ==
    Rev(SelectSeq(Indices(ms), LAMBDA i : ms[i].version > tv))

\* What the invocation that just ended leaves for the next one to compare with.
Remember ==
    IF lastOp = "run" /\ result = "Ok"
    THEN [NoPrev EXCEPT !.ok = TRUE, !.empty = (table0 = EmptyTable),
             !.ups = SelectSeq(log, LAMBDA e : e.kind = "record" /\ e.ok)]
    ELSE NoPrev

\* The same at the start of rollback(t): a rollback to the same target that
\* failed leaves the entries whose step it completed on a recorded version.
RememberRollback(t) ==
    IF /\ lastOp = "rollback"
       /\ result \in {"MigrationFailed", "DatabaseError"}
       /\ target_version = t
    THEN [NoPrev EXCEPT !.failed = TRUE,
             !.done = {log[j].idx : j \in {i \in DOMAIN log :
                          log[i].kind = "delete" /\ log[i].ok /\ log[i].n >= 1}}]
    ELSE Remember

\* The event the step just taken appended to the log.
Last(l) == l[Len(l)]

\* The table that the completed steps of the log make of tbl: one row more
\* for every record written, no row of the version for every delete done.
RECURSIVE Replay(_, _)
Replay(tbl, l) ==
    IF l = <<>> THEN tbl
    ELSE LET e == Last(l)
             t == Replay(tbl, SubSeq(l, 1, Len(l) - 1))
         IN  IF e.kind = "record" /\ e.ok THEN [t EXCEPT ![e.version] = @ + 1]
             ELSE IF e.kind = "delete" /\ e.ok THEN [t EXCEPT ![e.version] = 0]
             ELSE t

\* struct QueryMetrics; timestamp is read by no branch.
QueryMetrics == [execution_time : {1, 9}, rows_affected : {1, 9}]

RECURSIVE Sum(_, _)
Sum(h, f) == IF h = <<>> THEN 0 ELSE h[1][f] + Sum(Tail(h), f)

\* The last n entries of a sequence (all of it when it has fewer).
LastN(q, n) ==
    IF Len(q) <= n THEN q ELSE SubSeq(q, Len(q) - n + 1, Len(q))

\* AnomalyDetector::new(window_size, threshold_multiplier).
InitDetector ==
    /\ window_size \in 0..MaxWindow
    /\ threshold_multiplier \in 1..2
    /\ metrics_history = <<>>
    /\ recorded = <<>>
    /\ anomalies = <<>>

\* No detector in use.
NoDetector ==
    /\ window_size = 0
    /\ threshold_multiplier = 1
    /\ metrics_history = <<>>
    /\ recorded = <<>>
    /\ anomalies = <<>>

\* The manager right after MigrationManager::new on a database whose
\* migration table holds the rows tbl.
InitOn(tbl) ==
    /\ migrations = <<>>
    /\ table = tbl
    /\ pc = "idle"
    /\ current_version = 0
    /\ target_version = 0
    /\ work = <<>>
    /\ log = <<>>
    /\ table0 = tbl
    /\ result = "none"
    /\ lastOp = "none"
    /\ prev = NoPrev
    /\ pc2 = "idle"
    /\ current_version2 = 0
    /\ work2 = <<>>
    /\ log2 = <<>>
    /\ sink = TRUE
    /\ serving = "no"

InitManager == InitOn(EmptyTable)

Init == InitManager /\ NoDetector

\* MigrationManager::new on the same database: a process (re)start, also
\* after the process died in the middle of an invocation (the history then
\* keeps the position it died at). The Registry starts empty, the table
\* persists.
new ==
    /\ lastOp # "none"
    /\ migrations' = <<>>
    /\ pc' = "idle"
    /\ current_version' = 0
    /\ target_version' = 0
    /\ work' = <<>>
    /\ log' = <<>>
    /\ table0' = table
    /\ result' = IF pc = "idle" THEN "none" ELSE pc
    /\ lastOp' = "none"
    /\ prev' = NoPrev
    /\ serving' = "no"
    /\ UNCHANGED <<table, second, sink, detector>>

\* add_migration(&mut self, migration): push, nothing else. &mut self rules
\* out a call while an invocation is in flight.
add_migration(m) ==
    /\ pc = "idle"
    /\ pc2 = "idle"
    /\ Len(migrations) < MaxMigrations
    /\ migrations' = Append(migrations, m)
    /\ current_version' = 0
    /\ target_version' = 0
    /\ log' = <<>>
    /\ table0' = table
    /\ result' = "none"
    /\ lastOp' = "add"
    /\ prev' = NoPrev
    /\ UNCHANGED <<table, pc, work, second, outside>>

\* get_current_version called by the manager's user: the query, and the
\* version or DatabaseError returned. Reads only.
current_version_query ==
    /\ pc = "idle"
    /\ prev' = NoPrev
    /\ lastOp' = "version"
    /\ table0' = table
    /\ target_version' = 0
    /\ \/ /\ current_version' = get_current_version(table)
          /\ log' = <<Ev("query", 0, current_version', TRUE, 0)>>
          /\ result' = "Ok"
       \/ /\ current_version' = 0
          /\ log' = <<Ev("query", 0, 0, FALSE, 0)>>
          /\ result' = "DatabaseError"
    /\ UNCHANGED <<migrations, table, pc, work, second, outside>>

\* Mutant of run_pending_migrations: a failed version query counts as
\* version 0 (unwrap_or_default instead of `?`) and the run goes on.
run_pending_migrations_default ==
    /\ pc = "idle"
    /\ prev' = Remember
    /\ lastOp' = "run"
    /\ table0' = table
    /\ target_version' = 0
    /\ \E ok \in BOOLEAN :
          /\ current_version' = IF ok THEN get_current_version(table) ELSE 0
          /\ work' = pending_forward(migrations, current_version')
          /\ log' = <<Ev("query", 0, current_version', ok, 0)>>
          /\ pc' = IF work' = <<>> THEN "idle" ELSE "apply_up"
          /\ result' = IF work' = <<>> THEN "Ok" ELSE "pending"
    /\ UNCHANGED <<migrations, table, second, outside>>

\* run_pending_migrations up to the first apply_migration: the version
\* query (`?` returns DatabaseError) and the construction of the iterator.
run_pending_migrations ==
    /\ pc = "idle"
    /\ prev' = Remember
    /\ lastOp' = "run"
    /\ table0' = table
    /\ target_version' = 0
    /\ \/ /\ current_version' = get_current_version(table)
          /\ work' = pending_forward(migrations, current_version')
          /\ log' = <<Ev("query", 0, current_version', TRUE, 0)>>
          /\ pc' = IF work' = <<>> THEN "idle" ELSE "apply_up"
          /\ result' = IF work' = <<>> THEN "Ok" ELSE "pending"
       \/ /\ current_version' = 0
          /\ work' = <<>>
          /\ log' = <<Ev("query", 0, 0, FALSE, 0)>>
          /\ pc' = "idle"
          /\ result' = "DatabaseError"
    /\ UNCHANGED <<migrations, table, second, outside>>

\* Mutant of apply_migration_up: the metric is recorded after the script,
\* when it has succeeded.
apply_migration_up_metric_last ==
    /\ pc = "apply_up"
    /\ LET i == Head(work)
           v == migrations[i].version
       IN  \/ /\ log' = log \o <<Ev("up", i, v, TRUE, table[v]),
                                 Ev("metric", i, v, sink, table[v])>>
              /\ pc' = "apply_record"
              /\ UNCHANGED <<work, result>>
           \/ /\ log' = log \o <<Ev("up", i, v, FALSE, table[v])>>
              /\ pc' = "idle"
              /\ work' = <<>>
              /\ result' = "MigrationFailed"
    /\ UNCHANGED <<migrations, table, current_version, target_version,
                   table0, lastOp, prev, second, outside>>

\* Mutant of apply_migration_up: record_metric returns a Result that the
\* step propagates; with the sink gone the step fails before the script.
apply_migration_up_metric_fallible ==
    /\ pc = "apply_up"
    /\ LET i == Head(work)
           v == migrations[i].version
       IN  \/ /\ sink
              /\ log' = log \o <<Ev("metric", i, v, sink, table[v]),
                                 Ev("up", i, v, TRUE, table[v])>>
              /\ pc' = "apply_record"
              /\ UNCHANGED <<work, result>>
           \/ /\ sink
              /\ log' = log \o <<Ev("metric", i, v, sink, table[v]),
                                 Ev("up", i, v, FALSE, table[v])>>
              /\ pc' = "idle"
              /\ work' = <<>>
              /\ result' = "MigrationFailed"
           \/ /\ ~sink
              /\ log' = Append(log, Ev("metric", i, v, sink, table[v]))
              /\ pc' = "idle"
              /\ work' = <<>>
              /\ result' = "DatabaseError"
    /\ UNCHANGED <<migrations, table, current_version, target_version,
                   table0, lastOp, prev, second, outside>>

\* Mutant of apply_migration_up: the record is written in the same step
\* as the script is sent, whatever the script's outcome.
apply_migration_up_record_anyway ==
    /\ pc = "apply_up"
    /\ LET i == Head(work)
           v == migrations[i].version
       IN  /\ table' = [table EXCEPT ![v] = @ + 1]
           /\ \/ /\ log' = log \o <<Ev("metric", i, v, sink, table[v]),
                                    Ev("up", i, v, TRUE, table[v])>>
                 /\ pc' = "apply_record"
                 /\ UNCHANGED <<work, result>>
              \/ /\ log' = log \o <<Ev("metric", i, v, sink, table[v]),
                                    Ev("up", i, v, FALSE, table[v])>>
                 /\ pc' = "idle"
                 /\ work' = <<>>
                 /\ result' = "MigrationFailed"
    /\ UNCHANGED <<migrations, current_version, target_version,
                   table0, lastOp, prev, second, outside>>

\* Mutant of apply_migration_up: the record is written when the script is
\* sent, before its outcome is known.
apply_migration_up_record_first ==
    /\ pc = "apply_up"
    /\ LET i == Head(work)
           v == migrations[i].version
       IN  \/ /\ log' = log \o <<Ev("metric", i, v, sink, table[v]),
                                 Ev("up", i, v, TRUE, table[v])>>
              /\ table' = [table EXCEPT ![v] = @ + 1]
              /\ pc' = "apply_record"
              /\ UNCHANGED <<work, result>>
           \/ /\ log' = log \o <<Ev("metric", i, v, sink, table[v]),
                                 Ev("up", i, v, FALSE, table[v])>>
              /\ pc' = "idle"
              /\ work' = <<>>
              /\ result' = "MigrationFailed"
              /\ UNCHANGED table
    /\ UNCHANGED <<migrations, current_version, target_version,
                   table0, lastOp, prev, second, outside>>

\* Mutant of apply_migration_up: the error of the up script is dropped
\* (no `?`), the step goes on to write the record.
apply_migration_up_ignore ==
    /\ pc = "apply_up"
    /\ LET i == Head(work)
           v == migrations[i].version
       IN  \E ok \in BOOLEAN :
              /\ log' = log \o <<Ev("metric", i, v, sink, table[v]),
                                 Ev("up", i, v, ok, table[v])>>
              /\ pc' = "apply_record"
              /\ UNCHANGED <<work, result>>
    /\ UNCHANGED <<migrations, table, current_version, target_version,
                   table0, lastOp, prev, second, outside>>

\* apply_migration, first half: record_metric, then the up script.
apply_migration_up ==
    /\ pc = "apply_up"
    /\ LET i == Head(work)
           v == migrations[i].version
       IN  \/ /\ log' = log \o <<Ev("metric", i, v, sink, table[v]),
                                 Ev("up", i, v, TRUE, table[v])>>
              /\ pc' = "apply_record"
              /\ UNCHANGED <<work, result>>
           \/ /\ log' = log \o <<Ev("metric", i, v, sink, table[v]),
                                 Ev("up", i, v, FALSE, table[v])>>
              /\ pc' = "idle"
              /\ work' = <<>>
              /\ result' = "MigrationFailed"
    /\ UNCHANGED <<migrations, table, current_version, target_version,
                   table0, lastOp, prev, second, outside>>

\* Mutant of apply_migration_record: the loop asks for the current version
\* again after each record and filters the Registry anew.
apply_migration_record_recompute ==
    /\ pc = "apply_record"
    /\ LET i == Head(work)
           v == migrations[i].version
       IN  \/ /\ table' = [table EXCEPT ![v] = @ + 1]
              /\ log' = Append(log, Ev("record", i, v, TRUE, table[v]))
              /\ work' = pending_forward(migrations, get_current_version(table'))
              /\ pc' = IF work' = <<>> THEN "idle" ELSE "apply_up"
              /\ result' = IF work' = <<>> THEN "Ok" ELSE "pending"
           \/ /\ log' = Append(log, Ev("record", i, v, FALSE, table[v]))
              /\ pc' = "idle"
              /\ work' = <<>>
              /\ result' = "DatabaseError"
              /\ UNCHANGED table
    /\ UNCHANGED <<migrations, current_version, target_version,
                   table0, lastOp, prev, second, outside>>

\* Mutant of apply_migration_record: the applied_at of the in-memory
\* definition is set when its record is written.
apply_migration_record_stamp ==
    /\ pc = "apply_record"
    /\ LET i == Head(work)
           v == migrations[i].version
       IN  \/ /\ table' = [table EXCEPT ![v] = @ + 1]
              /\ migrations' = [migrations EXCEPT ![i].applied_at = "Some"]
              /\ log' = Append(log, Ev("record", i, v, TRUE, table[v]))
              /\ work' = Tail(work)
              /\ pc' = IF work' = <<>> THEN "idle" ELSE "apply_up"
              /\ result' = IF work' = <<>> THEN "Ok" ELSE "pending"
           \/ /\ log' = Append(log, Ev("record", i, v, FALSE, table[v]))
              /\ pc' = "idle"
              /\ work' = <<>>
              /\ result' = "DatabaseError"
              /\ UNCHANGED <<table, migrations>>
    /\ UNCHANGED <<current_version, target_version,
                   table0, lastOp, prev, second, outside>>

\* Mutant of apply_migration_record: the loop does not advance, the same
\* migration is applied again after its record is written.
apply_migration_record_stay ==
    /\ pc = "apply_record"
    /\ LET i == Head(work)
           v == migrations[i].version
       IN  \/ /\ table' = [table EXCEPT ![v] = @ + 1]
              /\ log' = Append(log, Ev("record", i, v, TRUE, table[v]))
              /\ pc' = "apply_up"
              /\ UNCHANGED <<work, result>>
           \/ /\ log' = Append(log, Ev("record", i, v, FALSE, table[v]))
              /\ pc' = "idle"
              /\ work' = <<>>
              /\ result' = "DatabaseError"
              /\ UNCHANGED table
    /\ UNCHANGED <<migrations, current_version, target_version,
                   table0, lastOp, prev, second, outside>>

\* Mutant of apply_migration_record: the error of the record write is
\* dropped (no `?`), the loop moves on to the next migration.
apply_migration_record_ignore ==
    /\ pc = "apply_record"
    /\ LET i == Head(work)
           v == migrations[i].version
       IN  /\ \/ /\ table' = [table EXCEPT ![v] = @ + 1]
                 /\ log' = Append(log, Ev("record", i, v, TRUE, table[v]))
              \/ /\ log' = Append(log, Ev("record", i, v, FALSE, table[v]))
                 /\ UNCHANGED table
           /\ work' = Tail(work)
           /\ pc' = IF work' = <<>> THEN "idle" ELSE "apply_up"
           /\ result' = IF work' = <<>> THEN "Ok" ELSE "pending"
    /\ UNCHANGED <<migrations, current_version, target_version,
                   table0, lastOp, prev, second, outside>>

\* apply_migration, second half: CREATE migration SET version = ..., and the
\* loop of run_pending_migrations moving on.
apply_migration_record ==
    /\ pc = "apply_record"
    /\ LET i == Head(work)
           v == migrations[i].version
       IN  \/ /\ table' = [table EXCEPT ![v] = @ + 1]
              /\ log' = Append(log, Ev("record", i, v, TRUE, table[v]))
              /\ work' = Tail(work)
              /\ pc' = IF work' = <<>> THEN "idle" ELSE "apply_up"
              /\ result' = IF work' = <<>> THEN "Ok" ELSE "pending"
           \/ /\ log' = Append(log, Ev("record", i, v, FALSE, table[v]))
              /\ pc' = "idle"
              /\ work' = <<>>
              /\ result' = "DatabaseError"
              /\ UNCHANGED table
    /\ UNCHANGED <<migrations, current_version, target_version,
                   table0, lastOp, prev, second, outside>>

\* rollback up to the first rollback_migration: the version query, the
\* migration_rollback metric and the construction of the iterator.
rollback(t) ==
    /\ pc = "idle"
    /\ prev' = RememberRollback(t)
    /\ lastOp' = "rollback"
    /\ table0' = table
    /\ target_version' = t
    /\ \/ /\ current_version' = get_current_version(table)
          /\ work' = pending_backward(migrations, t)
          /\ log' = <<Ev("query", 0, current_version', TRUE, 0),
                      Ev("rollback_metric", 0, t, sink, 0)>>
          /\ pc' = IF work' = <<>> THEN "idle" ELSE "rollback_down"
          /\ result' = IF work' = <<>> THEN "Ok" ELSE "pending"
       \/ /\ current_version' = 0
          /\ work' = <<>>
          /\ log' = <<Ev("query", 0, 0, FALSE, 0)>>
          /\ pc' = "idle"
          /\ result' = "DatabaseError"
    /\ UNCHANGED <<migrations, table, second, outside>>

\* rollback_migration, first half: record_metric, then the down script.
rollback_migration_down ==
    /\ pc = "rollback_down"
    /\ LET i == Head(work)
           v == migrations[i].version
       IN  \/ /\ log' = log \o <<Ev("metric", i, v, sink, table[v]),
                                 Ev("down", i, v, TRUE, table[v])>>
              /\ pc' = "rollback_delete"
              /\ UNCHANGED <<work, result>>
           \/ /\ log' = log \o <<Ev("metric", i, v, sink, table[v]),
                                 Ev("down", i, v, FALSE, table[v])>>
              /\ pc' = "idle"
              /\ work' = <<>>
              /\ result' = "MigrationFailed"
    /\ UNCHANGED <<migrations, table, current_version, target_version,
                   table0, lastOp, prev, second, outside>>

\* Mutant of rollback_migration_delete: the WHERE clause written with >=,
\* the rows of higher versions go too.
rollback_migration_delete_geq ==
    /\ pc = "rollback_delete"
    /\ LET i == Head(work)
           v == migrations[i].version
       IN  \/ /\ table' = [w \in Versions |-> IF w >= v THEN 0 ELSE table[w]]
              /\ log' = Append(log, Ev("delete", i, v, TRUE, table[v]))
              /\ work' = Tail(work)
              /\ pc' = IF work' = <<>> THEN "idle" ELSE "rollback_down"
              /\ result' = IF work' = <<>> THEN "Ok" ELSE "pending"
           \/ /\ log' = Append(log, Ev("delete", i, v, FALSE, table[v]))
              /\ pc' = "idle"
              /\ work' = <<>>
              /\ result' = "DatabaseError"
              /\ UNCHANGED table
    /\ UNCHANGED <<migrations, current_version, target_version,
                   table0, lastOp, prev, second, outside>>

\* rollback_migration, second half: DELETE FROM migration WHERE version =
\* $version (every row of that version), and the loop of rollback moving on.
rollback_migration_delete ==
    /\ pc = "rollback_delete"
    /\ LET i == Head(work)
           v == migrations[i].version
       IN  \/ /\ table' = [table EXCEPT ![v] = 0]
              /\ log' = Append(log, Ev("delete", i, v, TRUE, table[v]))
              /\ work' = Tail(work)
              /\ pc' = IF work' = <<>> THEN "idle" ELSE "rollback_down"
              /\ result' = IF work' = <<>> THEN "Ok" ELSE "pending"
           \/ /\ log' = Append(log, Ev("delete", i, v, FALSE, table[v]))
              /\ pc' = "idle"
              /\ work' = <<>>
              /\ result' = "DatabaseError"
              /\ UNCHANGED table
    /\ UNCHANGED <<migrations, current_version, target_version,
                   table0, lastOp, prev, second, outside>>

manager == <<migrations, table, pc, current_version, target_version, work,
             log, table0, result, lastOp, prev, second, sink, serving>>

\* AnomalyDetector::record_metrics: pop_front when len >= window_size (on
\* an empty deque pop_front returns None), then push_back.
record_metrics(metrics) ==
    /\ Len(recorded) < MaxRecorded
    /\ metrics_history' =
           Append(IF Len(metrics_history) >= window_size /\ metrics_history # <<>>
                  THEN Tail(metrics_history) ELSE metrics_history, metrics)
    /\ recorded' = Append(recorded, metrics)
    /\ UNCHANGED <<window_size, threshold_multiplier, anomalies, manager>>

\* AnomalyDetector::detect_anomalies(&self, current_metrics): nothing with a
\* history of fewer than 2 entries; else the two comparisons with the
\* averages (Duration / u32 truncates; the f64 average of the rows is
\* compared exactly, rows * n > sum * multiplier).
detect_anomalies(current_metrics) ==
    /\ anomalies' =
           IF Len(metrics_history) < 2 THEN <<>>
           ELSE LET n == Len(metrics_history)
                    avg_execution_time == Sum(metrics_history, "execution_time") \div n
                    time == IF current_metrics.execution_time
                                  > avg_execution_time * threshold_multiplier
                            THEN <<"Unusual query execution time detected">>
                            ELSE <<>>
                    rows == IF current_metrics.rows_affected * n
                                  > Sum(metrics_history, "rows_affected")
                                        * threshold_multiplier
                            THEN <<"Unusual number of affected rows detected">>
                            ELSE <<>>
                IN  time \o rows
    /\ UNCHANGED <<window_size, threshold_multiplier, metrics_history,
                   recorded, manager>>

\* The metric sink (the global OpenTelemetry meter provider) goes away or
\* comes back; the manager is not told.
sink_change ==
    /\ sink' = ~sink
    /\ UNCHANGED <<migrations, table, first, second, serving, detector>>

\* Another writer on the same database (same table, no lock) inserts the
\* row of a version that has none while an invocation is in flight; it
\* writes once per invocation.
other_writer ==
    /\ pc # "idle"
    /\ table = Replay(table0, log)
    /\ \E v \in 1..MaxVersion : table[v] = 0 /\ table' = [table EXCEPT ![v] = 1]
    /\ UNCHANGED <<migrations, first, second, outside>>

\* main: the two add_migration calls, version 1 then version 2.
main_add_migration ==
    /\ serving = "no"
    /\ lastOp \in {"none", "add"}
    /\ Len(migrations) < 2
    /\ add_migration([version |-> Len(migrations) + 1, applied_at |-> "None"])

\* main: migration_manager.run_pending_migrations().await
main_run_pending_migrations ==
    /\ serving = "no"
    /\ lastOp = "add"
    /\ Len(migrations) = 2
    /\ run_pending_migrations

\* Mutant of main_serve: the result of run_pending_migrations is dropped
\* (no `?`), the server starts whatever it was.
main_serve_unchecked ==
    /\ serving = "no"
    /\ pc = "idle"
    /\ lastOp = "run"
    /\ serving' \in {"serving", "exited"}
    /\ UNCHANGED <<migrations, table, first, second, sink, detector>>

\* main after run_pending_migrations returned Ok: the service is built,
\* the listener bound (`?`: the process exits) and the server started.
main_serve ==
    /\ serving = "no"
    /\ pc = "idle"
    /\ lastOp = "run"
    /\ result = "Ok"
    /\ serving' \in {"serving", "exited"}
    /\ UNCHANGED <<migrations, table, first, second, sink, detector>>

\* main after run_pending_migrations returned an error: `?` returns it
\* from main, the process exits.
main_exit ==
    /\ serving = "no"
    /\ pc = "idle"
    /\ lastOp = "run"
    /\ result \in {"MigrationFailed", "DatabaseError"}
    /\ serving' = "exited"
    /\ UNCHANGED <<migrations, table, first, second, sink, detector>>

\* Mutant of run_pending_migrations_2: the manager holds a lock for the
\* length of an invocation, the second call waits for the first to return.
run_pending_migrations_2_locked ==
    /\ pc = "idle"
    /\ pc2 = "idle"
    /\ \/ /\ current_version2' = get_current_version(table)
          /\ work2' = pending_forward(migrations, current_version2')
          /\ log2' = <<Ev("query", 0, current_version2', TRUE, 0)>>
          /\ pc2' = IF work2' = <<>> THEN "idle" ELSE "apply_up"
       \/ /\ current_version2' = 0
          /\ work2' = <<>>
          /\ log2' = <<Ev("query", 0, 0, FALSE, 0)>>
          /\ pc2' = "idle"
    /\ UNCHANGED <<migrations, table, first, outside>>

\* run_pending_migrations(&self) called a second time while the first call
\* may be in flight: &self allows it and the body takes no lock.
run_pending_migrations_2 ==
    /\ pc2 = "idle"
    /\ \/ /\ current_version2' = get_current_version(table)
          /\ work2' = pending_forward(migrations, current_version2')
          /\ log2' = <<Ev("query", 0, current_version2', TRUE, 0)>>
          /\ pc2' = IF work2' = <<>> THEN "idle" ELSE "apply_up"
       \/ /\ current_version2' = 0
          /\ work2' = <<>>
          /\ log2' = <<Ev("query", 0, 0, FALSE, 0)>>
          /\ pc2' = "idle"
    /\ UNCHANGED <<migrations, table, first, outside>>

\* apply_migration of the second call, first half.
apply_migration_up_2 ==
    /\ pc2 = "apply_up"
    /\ LET i == Head(work2)
           v == migrations[i].version
       IN  \/ /\ log2' = log2 \o <<Ev("metric", i, v, sink, table[v]),
                                   Ev("up", i, v, TRUE, table[v])>>
              /\ pc2' = "apply_record"
              /\ UNCHANGED work2
           \/ /\ log2' = log2 \o <<Ev("metric", i, v, sink, table[v]),
                                   Ev("up", i, v, FALSE, table[v])>>
              /\ pc2' = "idle"
              /\ work2' = <<>>
    /\ UNCHANGED <<migrations, table, current_version2, first, outside>>

\* apply_migration of the second call, second half. The table has no
\* unique index on version: the CREATE succeeds beside an existing row.
apply_migration_record_2 ==
    /\ pc2 = "apply_record"
    /\ LET i == Head(work2)
           v == migrations[i].version
       IN  \/ /\ table' = [table EXCEPT ![v] = @ + 1]
              /\ log2' = Append(log2, Ev("record", i, v, TRUE, table[v]))
              /\ work2' = Tail(work2)
              /\ pc2' = IF work2' = <<>> THEN "idle" ELSE "apply_up"
           \/ /\ log2' = Append(log2, Ev("record", i, v, FALSE, table[v]))
              /\ pc2' = "idle"
              /\ work2' = <<>>
              /\ UNCHANGED table
    /\ UNCHANGED <<migrations, current_version2, first, outside>>

Next ==
    \/ new
    \/ \E m \in Migration : add_migration(m)
    \/ current_version_query
    \/ run_pending_migrations
    \/ apply_migration_up
    \/ apply_migration_record
    \/ \E t \in Targets : rollback(t)
    \/ rollback_migration_down
    \/ rollback_migration_delete

Spec == Init /\ [][Next]_vars

\* Two run_pending_migrations calls on one manager and one database.
NextRace ==
    \/ \E m \in Migration : add_migration(m)
    \/ run_pending_migrations
    \/ apply_migration_up
    \/ apply_migration_record
    \/ run_pending_migrations_2
    \/ apply_migration_up_2
    \/ apply_migration_record_2

SpecRace == Init /\ [][NextRace]_vars

\* The manager while the metric sink comes and goes.
NextSink ==
    \/ sink_change
    \/ \E m \in Migration : add_migration(m)
    \/ run_pending_migrations
    \/ apply_migration_up
    \/ apply_migration_record
    \/ \E t \in Targets : rollback(t)
    \/ rollback_migration_down
    \/ rollback_migration_delete

SpecSink == Init /\ [][NextSink]_vars

\* main, from MigrationManager::new on, and the process started again.
NextBoot ==
    \/ new
    \/ main_add_migration
    \/ main_run_pending_migrations
    \/ apply_migration_up
    \/ apply_migration_record
    \/ main_serve
    \/ main_exit

\* The process may find any rows in the table (of earlier deployments).
InitBoot == (\E tbl \in [Versions -> 0..1] : InitOn(tbl)) /\ NoDetector

SpecBoot == InitBoot /\ [][NextBoot]_vars

\* One manager and another writer on its database.
NextWriter ==
    \/ other_writer
    \/ \E m \in Migration : add_migration(m)
    \/ run_pending_migrations
    \/ apply_migration_up
    \/ apply_migration_record
    \/ \E t \in Targets : rollback(t)
    \/ rollback_migration_down
    \/ rollback_migration_delete

SpecWriter == Init /\ [][NextWriter]_vars

\* One manager from its construction on, every database call returning.
NextProcess ==
    \/ \E m \in Migration : add_migration(m)
    \/ run_pending_migrations
    \/ apply_migration_up
    \/ apply_migration_record
    \/ \E t \in Targets : rollback(t)
    \/ rollback_migration_down
    \/ rollback_migration_delete

SpecProcess ==
    /\ Init
    /\ [][NextProcess]_vars
    /\ WF_vars(apply_migration_up)
    /\ WF_vars(apply_migration_record)
    /\ WF_vars(rollback_migration_down)
    /\ WF_vars(rollback_migration_delete)

\* An AnomalyDetector of any window size and its two operations.
InitAnomaly == InitManager /\ InitDetector

NextAnomaly ==
    \/ \E m \in QueryMetrics : record_metrics(m)
    \/ \E m \in QueryMetrics : detect_anomalies(m)

SpecAnomaly == InitAnomaly /\ [][NextAnomaly]_vars

(***************************************************************************)
(* Vocabulary of the properties.                                           *)
(***************************************************************************)

\* The events of one kind in the invocation's log, in order.
Events(k) == SelectSeq(log, LAMBDA e : e.kind = k)

IdxOf(es) == [i \in 1..Len(es) |-> es[i].idx]

VersionsOf(ixs) == [i \in 1..Len(ixs) |-> migrations[ixs[i]].version]

RegisteredVersions == {migrations[i].version : i \in DOMAIN migrations}

\* Number of Registry entries with version v.
Registered(v) == Cardinality({i \in DOMAIN migrations : migrations[i].version = v})

\* The spec's "current version" of a table: the largest recorded version, 0
\* for no record.
RecordedMax(tbl) ==
    IF \A v \in Versions : tbl[v] = 0 THEN 0
    ELSE CHOOSE v \in Versions :
            /\ tbl[v] > 0
            /\ \A w \in Versions : tbl[w] > 0 => w <= v

StrictlyAscending(s) == \A i \in 1..(Len(s) - 1) : s[i] < s[i + 1]

StrictlyDescending(s) == \A i \in 1..(Len(s) - 1) : s[i] > s[i + 1]

\* The Registry as the spec's data model wants it: strictly positive,
\* pairwise distinct versions. add_migration enforces neither.
PositiveVersions == \A i \in DOMAIN migrations : migrations[i].version > 0

DistinctVersions ==
    \A i, j \in DOMAIN migrations :
        i # j => migrations[i].version # migrations[j].version

RunReturned(r) == pc = "idle" /\ lastOp = "run" /\ result = r

RollbackReturned(r) == pc = "idle" /\ lastOp = "rollback" /\ result = r

(***************************************************************************)
(* C1. No up script is executed while a record of that migration's version *)
(* exists in the table (n is the number of such rows when the script was   *)
(* sent). Stated as the claim; the code violates it.                       *)
(***************************************************************************)
C1_NoUpWhileRecorded ==
    \A i \in DOMAIN log : log[i].kind = "up" => log[i].n = 0

(***************************************************************************)
(* C2. Idempotence: a run_pending_migrations that follows a successful     *)
(* run_pending_migrations, with nothing called in between, executes no up  *)
(* script and writes no record.                                            *)
(***************************************************************************)
C2_Idempotent ==
    (lastOp = "run" /\ prev.ok) =>
        \A i \in DOMAIN log : log[i].kind \notin {"up", "record"}

C2_Witness ==
    /\ RunReturned("Ok")
    /\ prev.ok
    /\ Len(prev.ups) >= 2

(***************************************************************************)
(* C3. Ordering under failure: when the up script of pending migration k   *)
(* fails, the invocation has executed no up script of a higher version,    *)
(* has written no record for k's version or a higher one, the records it   *)
(* wrote before remain, and the current version is that of the last        *)
(* migration it applied (the pre-run value if none). Stated as the claim,  *)
(* for a Registry of positive, pairwise distinct versions; the code        *)
(* violates it even there.                                                 *)
(***************************************************************************)
C3_OrderingUnderFailure ==
    (RunReturned("MigrationFailed") /\ PositiveVersions /\ DistinctVersions) =>
        LET k == log[Len(log)]
            written == SelectSeq(log, LAMBDA e : e.kind = "record" /\ e.ok)
        IN  /\ \A i \in DOMAIN log :
                   log[i].kind = "up" => log[i].version <= k.version
            /\ \A i \in DOMAIN written : written[i].version < k.version
            /\ \A i \in DOMAIN written : table[written[i].version] >= 1
            /\ get_current_version(table) =
                   IF written = <<>> THEN RecordedMax(table0)
                   ELSE written[Len(written)].version

(***************************************************************************)
(* C4. Strict sequencing inside one run_pending_migrations: an up script   *)
(* that is not the first of the invocation starts only after the up script *)
(* before it succeeded and the record of that migration was written; at    *)
(* most one migration step is in progress.                                 *)
(***************************************************************************)
C4_StrictSequencing ==
    lastOp = "run" =>
        LET ups == {i \in DOMAIN log : log[i].kind = "up"}
            closed == {i \in DOMAIN log :
                          \/ log[i].kind = "record"
                          \/ log[i].kind = "up" /\ ~log[i].ok}
            open == Cardinality(ups) - Cardinality(closed)
        IN  /\ \A i \in ups :
                   LET before == {j \in ups : j < i}
                   IN  before # {} =>
                          LET j == Max(before)
                          IN  /\ log[j].ok
                              /\ \E r \in (j + 1)..(i - 1) :
                                     /\ log[r].kind = "record"
                                     /\ log[r].ok
                                     /\ log[r].idx = log[j].idx
            /\ open \in {0, 1}
            /\ (open = 1) <=> (pc = "apply_record")

C4_Witness ==
    /\ lastOp = "run"
    /\ Len(Events("up")) >= 2

(***************************************************************************)
(* C5. Postcondition of a successful run_pending_migrations from current   *)
(* version c. Original statement: every registered migration with version  *)
(* > c has exactly one record and get_current_version returns the largest  *)
(* registered version. Read here on a non-empty Registry of positive,      *)
(* pairwise distinct versions only, where it already fails.                *)
(***************************************************************************)
C5_Original ==
    (RunReturned("Ok") /\ migrations # <<>>
        /\ PositiveVersions /\ DistinctVersions) =>
        LET c == RecordedMax(table0)
        IN  /\ \A i \in DOMAIN migrations :
                   migrations[i].version > c => table[migrations[i].version] = 1
            /\ get_current_version(table) = Max(RegisteredVersions)

(***************************************************************************)
(* C5, amended. After a successful run_pending_migrations from current     *)
(* version c, every registered version > c has as many records as the      *)
(* Registry has entries of that version (one, for a version registered     *)
(* once), and get_current_version returns the larger of c and the largest  *)
(* registered version. For every Registry the code accepts.                *)
(***************************************************************************)
C5_Postcondition ==
    RunReturned("Ok") =>
        LET c == RecordedMax(table0)
        IN  /\ \A v \in RegisteredVersions : v > c => table[v] = Registered(v)
            /\ get_current_version(table) = Max({c} \cup RegisteredVersions)

C5_Witness ==
    /\ RunReturned("Ok")
    /\ table0 = EmptyTable
    /\ VersionsOf(IdxOf(Events("record"))) = <<1, 2>>
    /\ table[1] = 1
    /\ table[2] = 1
    /\ get_current_version(table) = 2

(***************************************************************************)
(* C6. Round trip: after a successful run_pending_migrations on an empty   *)
(* table, a successful rollback(0) executes the down scripts of the        *)
(* applied migrations in reverse order of application, highest version     *)
(* first, deletes every record and leaves the current version 0. Stated    *)
(* as the claim, for a Registry of positive, pairwise distinct versions;   *)
(* the code violates it even there.                                        *)
(***************************************************************************)
C6_RunThenRollbackZero ==
    (RollbackReturned("Ok") /\ target_version = 0 /\ prev.ok /\ prev.empty
        /\ PositiveVersions /\ DistinctVersions) =>
        LET downs == Events("down")
        IN  /\ IdxOf(downs) = Rev(IdxOf(prev.ups))
            /\ \A i \in 1..(Len(downs) - 1) :
                   downs[i].version >= downs[i + 1].version
            /\ table = EmptyTable
            /\ get_current_version(table) = 0

(***************************************************************************)
(* C7. Monotonicity: a successful run_pending_migrations never lowers the  *)
(* current version, a successful rollback never raises it, every step      *)
(* that wrote or deleted changed the set of recorded versions by exactly   *)
(* one version, and the current version is never negative. Stated as the   *)
(* claim, for a Registry of positive, pairwise distinct versions and a     *)
(* rollback target >= 0; the code violates it even there.                  *)
(***************************************************************************)
C7_Monotonic ==
    (PositiveVersions /\ DistinctVersions /\ target_version >= 0) =>
        /\ get_current_version(table) >= 0
        /\ RunReturned("Ok") =>
               get_current_version(table) >= get_current_version(table0)
        /\ RollbackReturned("Ok") =>
               get_current_version(table) <= get_current_version(table0)
        /\ \A i \in DOMAIN log :
               /\ (log[i].kind = "record" /\ log[i].ok) => log[i].n = 0
               /\ (log[i].kind = "delete" /\ log[i].ok) => log[i].n >= 1

(***************************************************************************)
(* C8. No two migrations of the Registry share a version (add_migration    *)
(* rejects a version that is already registered). Stated as the claim,     *)
(* for positive versions; the code violates it.                            *)
(***************************************************************************)
C8_NoDuplicateVersion ==
    PositiveVersions =>
        \A i, j \in DOMAIN migrations :
            i # j => migrations[i].version # migrations[j].version

(***************************************************************************)
(* C9. Forward work list: what run_pending_migrations sets out to process  *)
(* after reading current version v is exactly the registered migrations    *)
(* with version > v, each once, in strictly ascending version order, and   *)
(* it is empty iff v >= the largest registered version. Stated as the      *)
(* claim, for a Registry of positive, pairwise distinct versions added in  *)
(* any order; the code violates it.                                        *)
(***************************************************************************)
C9_ForwardWorkList ==
    (lastOp = "run" /\ Len(log) = 1 /\ log[1].ok
        /\ PositiveVersions /\ DistinctVersions) =>
        LET v == current_version
        IN  /\ {work[i] : i \in DOMAIN work} =
                   {i \in DOMAIN migrations : migrations[i].version > v}
            /\ Cardinality({work[i] : i \in DOMAIN work}) = Len(work)
            /\ StrictlyAscending(VersionsOf(work))
            /\ migrations # <<>> =>
                   ((work = <<>>) <=> (v >= Max(RegisteredVersions)))

(***************************************************************************)
(* C10. Backward work list: what rollback(t) sets out to process is        *)
(* exactly the registered migrations with version > t, each once, in       *)
(* strictly descending version order. Stated as the claim, for a Registry  *)
(* of positive, pairwise distinct versions added in any order; the code    *)
(* violates it.                                                            *)
(***************************************************************************)
C10_BackwardWorkList ==
    (lastOp = "rollback" /\ Len(log) = 2 /\ log[1].ok
        /\ PositiveVersions /\ DistinctVersions) =>
        /\ {work[i] : i \in DOMAIN work} =
               {i \in DOMAIN migrations : migrations[i].version > target_version}
        /\ Cardinality({work[i] : i \in DOMAIN work}) = Len(work)
        /\ StrictlyDescending(VersionsOf(work))

(***************************************************************************)
(* C11. get_current_version, called on its own or at the start of          *)
(* run_pending_migrations or rollback, returns the largest version among   *)
(* the rows of the table, 0 for no row, and changes neither the table nor  *)
(* the Registry.                                                           *)
(***************************************************************************)
C11_CurrentVersion ==
    [][(pc = "idle" /\ lastOp' \in {"version", "run", "rollback"}) =>
          /\ table' = table
          /\ migrations' = migrations
          /\ log'[1].ok => current_version' = RecordedMax(table)]_vars

C11_Witness ==
    /\ lastOp = "version"
    /\ result = "Ok"
    /\ table[1] >= 1
    /\ table[2] >= 1
    /\ current_version = 2

(***************************************************************************)
(* C12. When the up script fails, the step fails with MigrationFailed,     *)
(* writes no record for that migration, and leaves the table exactly as    *)
(* it was before the step.                                                 *)
(***************************************************************************)
C12_UpFailure ==
    [][(pc = "apply_up" /\ lastOp' = "run" /\ ~Last(log').ok) =>
          /\ Last(log').kind = "up"
          /\ result' = "MigrationFailed"
          /\ pc' = "idle"
          /\ table' = table]_vars

C12_Witness ==
    /\ RunReturned("MigrationFailed")
    /\ Last(log).kind = "up"
    /\ Len(Events("record")) >= 1

(***************************************************************************)
(* C13. When the record write fails after a successful up script, the run  *)
(* returns DatabaseError, the script's effect stays while no record of     *)
(* that version exists, no down script is executed, and a later            *)
(* run_pending_migrations has this migration in its work list. Stated as   *)
(* the claim, for a Registry of positive, pairwise distinct versions; the  *)
(* code violates it.                                                       *)
(***************************************************************************)
C13_RecordWriteFailure ==
    (lastOp = "run" /\ pc = "idle" /\ Len(log) > 1 /\ Last(log).kind = "record"
        /\ ~Last(log).ok /\ PositiveVersions /\ DistinctVersions) =>
        LET e == Last(log)
            u == log[Len(log) - 1]
            later == pending_forward(migrations, get_current_version(table))
        IN  /\ result = "DatabaseError"
            /\ u.kind = "up" /\ u.ok /\ u.idx = e.idx
            /\ table[e.version] = 0
            /\ Events("down") = <<>>
            /\ \E j \in DOMAIN later : later[j] = e.idx

(***************************************************************************)
(* C14. rollback_migration: a successful down script changes no record and *)
(* is followed by the delete; a successful delete removes the rows of      *)
(* version m.version and no other row; a failed down script returns        *)
(* MigrationFailed and a failed delete returns DatabaseError, both with    *)
(* the table unchanged.                                                     *)
(***************************************************************************)
C14_RollbackMigration ==
    [][(pc \in {"rollback_down", "rollback_delete"} /\ lastOp' = "rollback") =>
          LET e == Last(log')
              v == migrations[Head(work)].version
          IN  /\ e.version = v
              /\ (e.kind = "down" /\ e.ok) =>
                     (table' = table /\ pc' = "rollback_delete")
              /\ (e.kind = "down" /\ ~e.ok) =>
                     (table' = table /\ pc' = "idle"
                         /\ result' = "MigrationFailed")
              /\ (e.kind = "delete" /\ e.ok) =>
                     /\ table'[v] = 0
                     /\ \A w \in Versions \ {v} : table'[w] = table[w]
              /\ (e.kind = "delete" /\ ~e.ok) =>
                     (table' = table /\ pc' = "idle"
                         /\ result' = "DatabaseError")]_vars

C14_Witness ==
    /\ lastOp = "rollback"
    /\ Len(log) > 2
    /\ Last(log).kind = "delete"
    /\ Last(log).ok
    /\ Last(log).n = 1
    /\ table # EmptyTable

(***************************************************************************)
(* C15. rollback stops on the first failure: when the step of migration k  *)
(* fails, the invocation has executed no down script of a lower version,   *)
(* the records of lower versions are untouched, and the records it         *)
(* deleted stay deleted. Stated as the claim, for a Registry of positive,  *)
(* pairwise distinct versions that are all recorded once, and t >= 0; the  *)
(* code violates it.                                                       *)
(***************************************************************************)
C15_RollbackStopsOnFailure ==
    (lastOp = "rollback" /\ pc = "idle" /\ Len(log) > 2 /\ ~Last(log).ok
        /\ PositiveVersions /\ DistinctVersions /\ target_version >= 0
        /\ \A v \in RegisteredVersions : table0[v] = 1) =>
        LET k == Last(log)
            downs == Events("down")
            deleted == SelectSeq(log, LAMBDA e : e.kind = "delete" /\ e.ok)
        IN  /\ result \in {"MigrationFailed", "DatabaseError"}
            /\ \A i \in DOMAIN downs : downs[i].version >= k.version
            /\ \A v \in Versions : v < k.version => table[v] = table0[v]
            /\ \A i \in DOMAIN deleted : table[deleted[i].version] = 0

(***************************************************************************)
(* C16. When rollback(t) has failed part-way and is invoked again with the *)
(* same t, it executes no down script of a migration whose step completed  *)
(* in the failed invocation (down script succeeded, record deleted).       *)
(* Stated as the claim, for a Registry of positive, pairwise distinct      *)
(* versions and t >= 0; the code violates it.                              *)
(***************************************************************************)
C16_RetryAfterFailedRollback ==
    (lastOp = "rollback" /\ prev.failed
        /\ PositiveVersions /\ DistinctVersions /\ target_version >= 0) =>
        LET downs == Events("down")
        IN  \A i \in DOMAIN downs : downs[i].idx \notin prev.done

(***************************************************************************)
(* C17. rollback(t) executes down scripts only for migrations with         *)
(* t < version <= the current version it read; when no recorded version    *)
(* is above t it executes no script, changes no record and returns Ok.     *)
(* Stated as the claim, for a Registry of positive, pairwise distinct      *)
(* versions and t >= 0; the code violates it.                              *)
(***************************************************************************)
C17_RollbackOnlyApplied ==
    (lastOp = "rollback" /\ log[1].ok /\ PositiveVersions /\ DistinctVersions
        /\ target_version >= 0) =>
        LET downs == Events("down")
        IN  /\ \A i \in DOMAIN downs :
                   /\ downs[i].version > target_version
                   /\ downs[i].version <= current_version
            /\ RecordedMax(table0) <= target_version =>
                   /\ downs = <<>>
                   /\ table = table0
                   /\ pc = "idle" => result = "Ok"

(***************************************************************************)
(* C18, as the claim states it, for the versions the invocation that just  *)
(* returned has executed a script of, and a Registry of positive, strictly *)
(* ascending versions: a record of v exists if and only if the last        *)
(* script of v that succeeded is its up script. The code violates it.      *)
(***************************************************************************)
C18_Original ==
    (pc = "idle" /\ lastOp \in {"run", "rollback"} /\ PositiveVersions
        /\ StrictlyAscending(VersionsOf(Indices(migrations)))) =>
        \A v \in Versions :
            LET ss == SelectSeq(log, LAMBDA e :
                          e.version = v /\ e.kind \in {"up", "down"} /\ e.ok)
            IN  ss # <<>> => (table[v] > 0 <=> Last(ss).kind = "up")

(***************************************************************************)
(* C18, amended. A record of version v is created only by the write that   *)
(* directly follows a successful up script of v and deleted only by the    *)
(* delete that directly follows a successful down script of v; no other    *)
(* row changes; and once the write of a step has succeeded a record of v   *)
(* exists if and only if the script of that step was the up script.        *)
(***************************************************************************)
C18_RecordLifecycle ==
    lastOp \in {"run", "rollback"} =>
        /\ \A j \in DOMAIN log :
               /\ (log[j].kind = "record" /\ log[j].ok) =>
                      /\ j > 1
                      /\ log[j - 1].kind = "up"
                      /\ log[j - 1].ok
                      /\ log[j - 1].idx = log[j].idx
               /\ (log[j].kind = "delete" /\ log[j].ok) =>
                      /\ j > 1
                      /\ log[j - 1].kind = "down"
                      /\ log[j - 1].ok
                      /\ log[j - 1].idx = log[j].idx
        /\ table = Replay(table0, log)
        /\ \A v \in Versions :
               LET es == SelectSeq(log, LAMBDA e : e.version = v
                             /\ e.kind \in {"up", "down", "record", "delete"})
               IN  (es # <<>> /\ Last(es).ok) =>
                       /\ Last(es).kind = "record" => table[v] > 0
                       /\ Last(es).kind = "delete" => table[v] = 0

C18_Witness ==
    /\ RollbackReturned("Ok")
    /\ table0[1] = 1
    /\ table0[2] = 1
    /\ target_version = 1
    /\ table[1] = 1
    /\ table[2] = 0

(***************************************************************************)
(* C19. The manager has no mutual exclusion: a second                      *)
(* run_pending_migrations call can start whatever the position of the      *)
(* first, and each call can take its next step whatever the position of    *)
(* the other. The witness is the race: both calls have read the same       *)
(* current version, both have executed the up script of the same           *)
(* migration, and both have written a record of its version.               *)
(***************************************************************************)
C19_NoMutualExclusion ==
    /\ pc2 = "idle" => ENABLED run_pending_migrations_2
    /\ pc2 = "apply_up" => ENABLED apply_migration_up_2
    /\ pc2 = "apply_record" => ENABLED apply_migration_record_2
    /\ pc = "idle" => ENABLED run_pending_migrations
    /\ pc = "apply_up" => ENABLED apply_migration_up
    /\ pc = "apply_record" => ENABLED apply_migration_record

C19_Witness ==
    /\ lastOp = "run"
    /\ Len(log) > 1
    /\ Len(log2) > 1
    /\ log[1].ok
    /\ log2[1].ok
    /\ log[1].version = log2[1].version
    /\ \E j \in DOMAIN log, k \in DOMAIN log2 :
           /\ log[j].kind = "record"
           /\ log2[k].kind = "record"
           /\ log[j].idx = log2[k].idx
           /\ log[j - 1].kind = "up" /\ log[j - 1].ok
           /\ log2[k - 1].kind = "up" /\ log2[k - 1].ok
           /\ log[j].ok /\ log2[k].ok
           /\ table[log[j].version] = 2

(***************************************************************************)
(* C20. Crash safety: when the process dies inside apply_migration, before *)
(* the record write has completed, the table is what the completed steps   *)
(* of the invocation made of it, and the current version is what it was    *)
(* before the step began.                                                  *)
(***************************************************************************)
C20_CrashSafety ==
    [][(pc \in {"apply_up", "apply_record"} /\ lastOp' = "none") =>
          /\ table' = Replay(table0, log)
          /\ get_current_version(table') = RecordedMax(Replay(table0, log))]_vars

C20_Witness ==
    /\ lastOp = "none"
    /\ result = "apply_record"
    /\ table[1] = 1
    /\ table[2] = 0
    /\ get_current_version(table) = 1

\* A failure result of an invocation.
Failures == {"MigrationFailed", "DatabaseError"}

\* The versions in the order of registration.
RegistryVersions == VersionsOf(Indices(migrations))

\* s is the beginning of t.
IsPrefix(s, t) == Len(s) <= Len(t) /\ s = SubSeq(t, 1, Len(s))

(***************************************************************************)
(* C21. With a Registry of pairwise distinct versions, no step of a single *)
(* writer makes a second Applied-Migration Record of a version: from a     *)
(* table with at most one row per version every step leads to a table      *)
(* with at most one row per version, whatever fails.                       *)
(***************************************************************************)
C21_UniqueRecords ==
    [][(DistinctVersions /\ \A v \in Versions : table[v] <= 1) =>
          \A v \in Versions : table'[v] <= 1]_vars

C21_Witness ==
    /\ RunReturned("Ok")
    /\ DistinctVersions
    /\ Len(migrations) = 2
    /\ table0 # EmptyTable
    /\ Len(Events("record")) = 1
    /\ \A v \in RegisteredVersions : table[v] = 1

(***************************************************************************)
(* C22. Every apply_migration and rollback_migration step records exactly  *)
(* one metric of its migration (same entry, same version), directly before *)
(* its script is sent, also in invocations where the script or the record  *)
(* write fails.                                                            *)
(***************************************************************************)
C22_MetricBeforeScript ==
    lastOp \in {"run", "rollback"} =>
        \A j \in DOMAIN log :
            /\ log[j].kind \in {"up", "down"} =>
                   /\ j > 1
                   /\ log[j - 1].kind = "metric"
                   /\ log[j - 1].idx = log[j].idx
                   /\ log[j - 1].version = migrations[log[j].idx].version
            /\ log[j].kind = "metric" =>
                   /\ j < Len(log)
                   /\ log[j + 1].kind = (IF lastOp = "run" THEN "up" ELSE "down")
                   /\ j > 1
                   /\ log[j - 1].kind # "metric"

C22_Witness ==
    /\ RunReturned("DatabaseError")
    /\ Len(Events("metric")) = 2
    /\ Len(Events("up")) = 2
    /\ ~Last(log).ok

(***************************************************************************)
(* C23. The metric sink cannot influence a step: whether the sink is       *)
(* available or not, the step sends its script, its outcome is the         *)
(* outcome of the script alone, both outcomes of the script remain         *)
(* possible, and no failure result comes from recording a metric.          *)
(***************************************************************************)
C23_SinkCannotInfluence ==
    /\ [][(pc \in {"apply_up", "rollback_down"} /\ log' # log) =>
             LET m == log'[Len(log') - 1]
                 e == Last(log')
             IN  /\ Len(log') = Len(log) + 2
                 /\ m.kind = "metric"
                 /\ m.ok = sink
                 /\ e.kind = (IF pc = "apply_up" THEN "up" ELSE "down")
                 /\ table' = table
                 /\ e.ok => /\ pc' = (IF pc = "apply_up" THEN "apply_record"
                                                         ELSE "rollback_delete")
                            /\ work' = work
                            /\ result' = result
                 /\ ~e.ok => /\ pc' = "idle"
                             /\ result' = "MigrationFailed"]_vars
    /\ [](pc = "apply_up" =>
             /\ ENABLED (apply_migration_up /\ pc' = "apply_record")
             /\ ENABLED (apply_migration_up /\ pc' = "idle"))
    /\ []((pc = "idle" /\ result \in Failures) =>
             /\ Last(log).kind \in {"query", "up", "record", "down", "delete"}
             /\ ~Last(log).ok)

C23_Witness ==
    /\ RunReturned("Ok")
    /\ Len(Events("record")) = 2
    /\ \E j \in DOMAIN log : log[j].kind = "metric" /\ ~log[j].ok
    /\ \E j \in DOMAIN log : log[j].kind = "metric" /\ log[j].ok

(***************************************************************************)
(* C24. An invocation reads the current version once, before any script;   *)
(* the list of migrations it processes is the one computed at that read    *)
(* and is not computed again between steps: what it has processed is       *)
(* always the beginning of that list, what it still has to process the     *)
(* rest, also when another writer changes the records meanwhile.           *)
(***************************************************************************)
C24_ReadOnce ==
    (lastOp \in {"run", "rollback"} /\ log[1].ok) =>
        LET list == IF lastOp = "run"
                    THEN pending_forward(migrations, current_version)
                    ELSE pending_backward(migrations, target_version)
            done == IdxOf(Events(IF lastOp = "run" THEN "up" ELSE "down"))
        IN  /\ Len(Events("query")) = 1
            /\ log[1].kind = "query"
            /\ current_version = log[1].version
            /\ IsPrefix(done, list)
            /\ pc \in {"apply_up", "rollback_down"} =>
                   work = SubSeq(list, Len(done) + 1, Len(list))
            /\ pc \in {"apply_record", "rollback_delete"} =>
                   work = SubSeq(list, Len(done), Len(list))
            /\ (pc = "idle" /\ result = "Ok") => done = list

C24_Witness ==
    /\ RunReturned("Ok")
    /\ DistinctVersions
    /\ Len(Events("up")) = 2
    /\ table # Replay(table0, log)
    /\ table[2] = 2

(***************************************************************************)
(* C25. When the current-version query at the start of                     *)
(* run_pending_migrations or rollback fails, the call returns              *)
(* DatabaseError at once: the query is not sent again, no script is        *)
(* executed and the table is unchanged.                                    *)
(***************************************************************************)
C25_QueryFailure ==
    [][(pc = "idle" /\ lastOp' \in {"run", "rollback"} /\ ~log'[1].ok) =>
          /\ log'[1].kind = "query"
          /\ Len(log') = 1
          /\ pc' = "idle"
          /\ work' = <<>>
          /\ result' = "DatabaseError"
          /\ table' = table]_vars

C25_Witness ==
    /\ RunReturned("DatabaseError")
    /\ Len(log) = 1
    /\ ~log[1].ok
    /\ pending_forward(migrations, get_current_version(table)) # <<>>

(***************************************************************************)
(* C26. main registers its two migrations before the first operation of    *)
(* the manager, and the gRPC server is started only after                  *)
(* run_pending_migrations has returned Ok; when it returns an error the    *)
(* process exits and does not serve.                                       *)
(***************************************************************************)
C26_BootstrapOrdering ==
    /\ lastOp = "run" => RegistryVersions = <<1, 2>>
    /\ serving = "serving" => RunReturned("Ok")
    /\ (pc = "idle" /\ lastOp = "run" /\ result \in Failures) =>
           serving \in {"no", "exited"}
    /\ pc # "idle" => serving = "no"

C26_Witness ==
    /\ serving = "serving"
    /\ table[1] = 1
    /\ table[2] = 1
    /\ Len(Events("record")) = 2

(***************************************************************************)
(* C27. run_pending_migrations, rollback and get_current_version leave the *)
(* Registry as it is: no entry added, removed, moved or modified, the      *)
(* applied_at of an entry included, whether the operation succeeds or      *)
(* fails.                                                                  *)
(***************************************************************************)
C27_RegistryFrame ==
    [][lastOp' \in {"run", "rollback", "version"} => migrations' = migrations]_vars

C27_Witness ==
    /\ RollbackReturned("Ok")
    /\ prev.ok
    /\ Len(migrations) = 2
    /\ Len(Events("delete")) = 2
    /\ table = EmptyTable
    /\ \A i \in DOMAIN migrations : migrations[i].applied_at = "None"

(***************************************************************************)
(* C28. Every database call returning, an invocation of                    *)
(* run_pending_migrations or rollback returns, with Ok after the last      *)
(* migration of its work list or with the failure of the first step that   *)
(* failed, and it processes no Registry entry twice.                       *)
(***************************************************************************)
C28_Termination ==
    /\ (pc # "idle") ~> (pc = "idle" /\ result \in {"Ok"} \cup Failures)
    /\ [](lastOp \in {"run", "rollback"} =>
             LET scripts == IdxOf(Events(IF lastOp = "run" THEN "up" ELSE "down"))
                 failed == SelectSeq(log, LAMBDA e : ~e.ok /\ e.kind # "metric"
                                        /\ e.kind # "rollback_metric")
             IN  /\ Cardinality({scripts[i] : i \in DOMAIN scripts}) = Len(scripts)
                 /\ pc # "idle" => failed = <<>>
                 /\ (pc = "idle" /\ result = "Ok") => failed = <<>>
                 /\ (pc = "idle" /\ result \in Failures) =>
                        (Len(failed) = 1 /\ ~Last(log).ok))

C28_Witness ==
    /\ RollbackReturned("Ok")
    /\ Len(Events("down")) = 2
    /\ target_version = 0
    /\ table0[1] = 1
    /\ table0[2] = 1

\* The rows of tbl are those of the registered versions up to its maximum.
NoHolesIn(tbl) ==
    {v \in Versions : tbl[v] > 0} =
        {v \in RegisteredVersions : v <= get_current_version(tbl)}

(***************************************************************************)
(* C29, as the claim states it, for a Registry of positive versions added  *)
(* in ascending order, after any invocation that began with records of     *)
(* registered versions only: the recorded versions are exactly the         *)
(* registered versions up to get_current_version. The code violates it.    *)
(***************************************************************************)
C29_Original ==
    (pc = "idle" /\ lastOp \in {"run", "rollback"} /\ PositiveVersions
        /\ StrictlyAscending(RegistryVersions)
        /\ \A v \in Versions : table0[v] > 0 => v \in RegisteredVersions) =>
        NoHolesIn(table)

(***************************************************************************)
(* C29, amended. With positive versions registered in ascending order, an  *)
(* invocation that starts on a table whose recorded versions are exactly   *)
(* the registered versions up to the current version (an empty table, for  *)
(* one) returns on such a table, whatever has failed.                      *)
(***************************************************************************)
C29_NoHoles ==
    (pc = "idle" /\ lastOp \in {"run", "rollback"} /\ PositiveVersions
        /\ StrictlyAscending(RegistryVersions) /\ NoHolesIn(table0)) =>
        NoHolesIn(table)

C29_Witness ==
    /\ RollbackReturned("MigrationFailed")
    /\ StrictlyAscending(RegistryVersions)
    /\ PositiveVersions
    /\ table0[1] = 1
    /\ table0[2] = 1
    /\ table[1] = 1
    /\ table[2] = 0

(***************************************************************************)
(* C30. After any sequence of record_metrics calls, for every window_size  *)
(* >= 0, the history holds at most window_size entries and they are the    *)
(* most recently recorded metrics in arrival order; detect_anomalies       *)
(* reports nothing while the history holds fewer than 2 entries. Stated    *)
(* as the claim; the code violates it.                                     *)
(***************************************************************************)
C30_AnomalyWindow ==
    /\ Len(metrics_history) <= window_size
    /\ metrics_history = LastN(recorded, window_size)
    /\ Len(metrics_history) < 2 => anomalies = <<>>

====
